---- MODULE Spec2Model ----
(***************************************************************************)
(* Model of codex-mcp (src/index.js): a stdio JSON-RPC server that wraps   *)
(* the codex CLI.  Strings that the code inspects character by character   *)
(* (paths) are sequences of one-character strings; identifiers that are    *)
(* only compared for equality are TLA+ strings.                            *)
(***************************************************************************)
EXTENDS Naturals, Integers, Sequences, FiniteSets, TLC

VARIABLES WORKDIR,     \* --workdir as given on the command line
          envHome,     \* CODEX_HOME in the server's inherited environment
          stdin,       \* input lines not yet read
          handlers,    \* one record per line read, in arrival order
          microtasks,  \* handlers whose continuation is queued
          inLoop,      \* readline is still emitting lines of the current chunk
          out,         \* handlers in the order their responses were written
          cfgMain,     \* config.toml of the main execution home
          cfgSec,      \* config.toml of the isolated execution home
          fsFiles,     \* files under the work directory: path -> content
          lastRows     \* rows used by the most recent refresh

vars == <<WORKDIR, envHome, stdin, handlers, microtasks, inLoop, out,
          cfgMain, cfgSec, fsFiles, lastRows>>

----------------------------------------------------------------------------
(* Bounds *)

MaxLines == 2
MaxPathLen == 5
MaxRows == 1
MaxRefresh == 2

----------------------------------------------------------------------------
(* Strings as character sequences *)

StartsWith(s, prefix) ==
  /\ Len(prefix) <= Len(s)
  /\ SubSeq(s, 1, Len(prefix)) = prefix

RECURSIVE SplitAcc(_, _, _)
SplitAcc(s, cur, acc) ==
  IF s = <<>> THEN Append(acc, cur)
  ELSE IF Head(s) = "/" THEN SplitAcc(Tail(s), <<>>, Append(acc, cur))
  ELSE SplitAcc(Tail(s), Append(cur, Head(s)), acc)

SplitSlash(s) == SplitAcc(s, <<>>, <<>>)

RECURSIVE NormalizeSegs(_, _)
NormalizeSegs(segs, acc) ==
  IF segs = <<>> THEN acc
  ELSE LET seg == Head(segs) IN
       IF seg = <<>> \/ seg = <<".">> THEN NormalizeSegs(Tail(segs), acc)
       ELSE IF seg = <<".", ".">>
            THEN NormalizeSegs(Tail(segs),
                   IF acc = <<>> THEN acc ELSE SubSeq(acc, 1, Len(acc) - 1))
            ELSE NormalizeSegs(Tail(segs), Append(acc, seg))

RECURSIVE JoinAbs(_)
JoinAbs(segs) ==
  IF segs = <<>> THEN <<>>
  ELSE <<"/">> \o Head(segs) \o JoinAbs(Tail(segs))

IsAbsolute(s) == s # <<>> /\ Head(s) = "/"

CWD == <<"/", "w">>

AbsSegs(s) == NormalizeSegs(SplitSlash(s), <<>>)

PathResolve(root, p) ==
  LET tailPart == IF p = <<>> THEN <<>> ELSE p \o <<"/">>
      withRoot == IF IsAbsolute(p) THEN tailPart
                  ELSE (IF root = <<>> THEN <<>> ELSE root \o <<"/">>) \o tailPart
      full     == IF IsAbsolute(withRoot) THEN withRoot
                  ELSE CWD \o <<"/">> \o withRoot
      segs     == AbsSegs(full)
  IN IF segs = <<>> THEN <<"/">> ELSE JoinAbs(segs)

----------------------------------------------------------------------------
(* JavaScript values *)

(* Let(v, F) is F(v) with v evaluated once, however often F uses it.      *)
Let(v, F(_)) == CHOOSE r \in {F(x) : x \in {v}} : TRUE

Undef == "<undefined>"
Null == "<null>"
True == "<true>"
False == "<false>"

Falsy(x) == x \in {Undef, Null, False, ""}

OrElse(x, y) == IF Falsy(x) THEN y ELSE x

----------------------------------------------------------------------------
(* Profile registry *)

FALLBACK_MODELS ==
  << [id |-> "default",    name |-> "Codex Max (default)",       base_model_id |-> "codex-max"],
     [id |-> "oss20b",     name |-> "OSS 20B (fast operator)",   base_model_id |-> "gpt-oss:20b-cloud"],
     [id |-> "oss120b",    name |-> "OSS 120B (heavy operator)", base_model_id |-> "gpt-oss:120b-cloud"],
     [id |-> "deepseek",   name |-> "Deepseek v3.1 (reasoning)", base_model_id |-> "deepseek-v3.1:671b-cloud"],
     [id |-> "qwen-coder", name |-> "Qwen3 Coder 480B",          base_model_id |-> "qwen3-coder:480b-cloud"],
     [id |-> "security",   name |-> "Kimi K2 Thinking",          base_model_id |-> "kimi-k2-thinking:cloud"] >>

AliasKeys == {"default", "fast", "heavy", "reasoning", "coder", "kimi", "security"}

(* Variant of PROFILE_ALIASES in which one alias points at another alias. *)
PROFILE_ALIASES_chained ==
  [k \in AliasKeys |->
     CASE k = "default"   -> "default"
       [] k = "fast"      -> "heavy"
       [] k = "heavy"     -> "oss120b"
       [] k = "reasoning" -> "deepseek"
       [] k = "coder"     -> "qwen-coder"
       [] k = "kimi"      -> "security"
       [] k = "security"  -> "security"]

PROFILE_ALIASES ==
  [k \in AliasKeys |->
     CASE k = "default"   -> "default"
       [] k = "fast"      -> "oss20b"
       [] k = "heavy"     -> "oss120b"
       [] k = "reasoning" -> "deepseek"
       [] k = "coder"     -> "qwen-coder"
       [] k = "kimi"      -> "security"
       [] k = "security"  -> "security"]

(* PROFILE_ALIASES is an object literal, so PROFILE_ALIASES[id] also finds *)
(* what it inherits from Object.prototype; the value found is written as  *)
(* the string it turns into when used as a key.                           *)
InheritedKeys == {"constructor", "__proto__"}

InheritedValue(k) ==
  IF k = "constructor" THEN "function Object() { [native code] }"
  ELSE "[object Object]"

normalizeProfileId(id) ==
  IF Falsy(id) THEN Null
  ELSE IF id \in AliasKeys THEN PROFILE_ALIASES[id]
  ELSE IF id \in InheritedKeys THEN InheritedValue(id)
  ELSE id

(* The result of the sqlite3 query process: its exit code and the rows     *)
(* parseModelRows extracts from its standard output.                       *)
readModelsFromDb(outcome) ==
  IF outcome.code = 0 /\ outcome.rows # <<>>
  THEN [models |-> outcome.rows, source |-> "openwebui"]
  ELSE [models |-> <<>>, source |-> "error"]

(* A JavaScript object used as a map: a sequence of entries in the order   *)
(* Object.keys enumerates them (integer-like keys ascending, then string   *)
(* keys in insertion order; assigning to an existing key keeps its place). *)
IndexOrder == <<"7">>

IndexKeys == {IndexOrder[i] : i \in 1..Len(IndexOrder)}

IndexRank(k) == CHOOSE i \in 1..Len(IndexOrder) : IndexOrder[i] = k

MapHas(map, k) == \E i \in 1..Len(map) : map[i].key = k

MapGet(map, k) == map[CHOOSE i \in 1..Len(map) : map[i].key = k]

MapKeys(map) == [i \in 1..Len(map) |-> map[i].key]

InsertAt(seq, pos, e) ==
  SubSeq(seq, 1, pos - 1) \o <<e>> \o SubSeq(seq, pos, Len(seq))

MapPut(map, e) ==
  IF MapHas(map, e.key)
  THEN [i \in 1..Len(map) |-> IF map[i].key = e.key THEN e ELSE map[i]]
  ELSE IF e.key \in IndexKeys
       THEN InsertAt(map,
              1 + Cardinality({i \in 1..Len(map) :
                                 /\ map[i].key \in IndexKeys
                                 /\ IndexRank(map[i].key) < IndexRank(e.key)}),
              e)
       ELSE Append(map, e)

ProfileEntry(key, name, baseModel) ==
  [key |-> key, id |-> key, name |-> name, baseModel |-> baseModel]

KIMI_MODEL == "kimi-k2-thinking:cloud"

(* Variant of buildRow in which the first row stored under a key stays.   *)
buildRow_firstWins(map, row) ==
  LET id  == normalizeProfileId(row.id)
      key == IF row.id = "kimi" \/ id = "security" THEN "security" ELSE id
  IN IF id = Null \/ MapHas(map, key) THEN map
     ELSE MapPut(map, ProfileEntry(key,
                        OrElse(row.name, IF key = "security" THEN "Security" ELSE id),
                        row.base_model_id))

(* The body of modelRows.forEach: the map after one more row.              *)
buildRow(map, row) ==
  LET id == normalizeProfileId(row.id)
  IN IF id = Null THEN map
     ELSE IF row.id = "kimi" \/ id = "security"
          THEN MapPut(map, ProfileEntry("security", OrElse(row.name, "Security"),
                                        row.base_model_id))
          ELSE MapPut(map, ProfileEntry(id, OrElse(row.name, id), row.base_model_id))

RECURSIVE buildRows(_, _, _)
buildRows(modelRows, n, map) ==
  IF n > Len(modelRows) THEN map
  ELSE Let(buildRow(map, modelRows[n]),
           LAMBDA next : buildRows(modelRows, n + 1, next))

NonSecurity(e) == e.key # "security"

ensureSecurity(m0, modelRows) ==
  IF /\ ~MapHas(m0, "security")
     /\ \E i \in 1..Len(modelRows) : modelRows[i].base_model_id = KIMI_MODEL
  THEN MapPut(m0, ProfileEntry("security", "Security", KIMI_MODEL))
  ELSE m0

selectDefault(map) ==
  LET nonSecurityIds == MapKeys(SelectSeq(map, NonSecurity))
  IN [map |-> map,
      defaultProfile |->
        IF MapHas(map, "default") THEN "default"
        ELSE IF nonSecurityIds # <<>> THEN nonSecurityIds[1]
        ELSE IF map # <<>> THEN map[1].key
        ELSE Null]

buildProfileMap(modelRows) ==
  Let(buildRows(modelRows, 1, <<>>),
      LAMBDA m0 : Let(ensureSecurity(m0, modelRows), LAMBDA map : selectDefault(map)))

----------------------------------------------------------------------------
(* Config synthesis.  A configuration text is the sequence of its lines;   *)
(* a line is a tuple <<key, profile id, value...>>.                        *)

OPENWEBUI_DB == "webui.db"

generateProfileBlock(id, name, model, opts) ==
  LET approval == OrElse(opts.approval_policy, "on-failure")
      sandbox  == OrElse(opts.sandbox_mode, "workspace-write")
      provider == IF opts.provider = Undef THEN "ollama" ELSE opts.provider
  IN << <<"[profiles]", id>>,
        <<"model", id, model>> >>
     \o (IF Falsy(provider) THEN <<>> ELSE << <<"model_provider", id, provider>> >>)
     \o << <<"approval_policy", id, approval>>,
           <<"sandbox_mode", id, sandbox>>,
           <<"model_reasoning_effort", id, "high">> >>
     \o (IF Falsy(provider) THEN <<>>
         ELSE << <<"[model_providers]", id, provider,
                   IF provider = "ollama" THEN "Ollama" ELSE provider>> >>)
     \o << <<"[features]", id>>,
           <<"[shell_environment_policy]", id>>,
           <<"[history]", id>>,
           <<"[tui]", id>>,
           <<"[projects]", id, "trusted">> >>

RECURSIVE Flatten(_)
Flatten(seqs) ==
  IF seqs = <<>> THEN <<>> ELSE Head(seqs) \o Flatten(Tail(seqs))

renderMainEntries(entries, defaultProfile) ==
  LET defaultLine ==
        IF /\ ~Falsy(defaultProfile)
           /\ \E i \in 1..Len(entries) : entries[i].id = defaultProfile
        THEN << <<"default_profile", defaultProfile>> >>
        ELSE <<>>
      header == << <<"# codex-mcp", OPENWEBUI_DB>> >> \o defaultLine
      blocks == [i \in 1..Len(entries) |->
                   generateProfileBlock(entries[i].id, entries[i].name,
                     entries[i].baseModel,
                     [approval_policy |-> "on-request",
                      sandbox_mode |-> IF entries[i].id = "default"
                                       THEN "danger-full-access"
                                       ELSE "workspace-write",
                      provider |-> IF entries[i].id = "default"
                                   THEN Null ELSE "ollama"])]
  IN header \o Flatten(blocks)

renderMainConfig(profileMap, defaultProfile) ==
  Let(SelectSeq(profileMap, NonSecurity),
      LAMBDA entries : renderMainEntries(entries, defaultProfile))

(* Variant of renderSecurityConfig that renders the isolated block with   *)
(* the policy of the ordinary profiles.                                    *)
renderSecurityConfig_asMain(securityProfile) ==
  << <<"# codex-mcp", "security isolated">> >>
  \o generateProfileBlock(securityProfile.id, securityProfile.name,
       securityProfile.baseModel,
       [approval_policy |-> "on-request",
        sandbox_mode |-> "danger-full-access",
        provider |-> Undef])

renderSecurityConfig(securityProfile) ==
  << <<"# codex-mcp", "security isolated">> >>
  \o generateProfileBlock(securityProfile.id, securityProfile.name,
       securityProfile.baseModel,
       [approval_policy |-> "untrusted",
        sandbox_mode |-> "workspace-write",
        provider |-> Undef])

(* Variants of writeIfChanged with a plausible slip: one rewrites the file *)
(* even when its content is unchanged, one never touches an existing file. *)
writeIfChanged_always(file, content) ==
  [exists |-> TRUE, content |-> content, mtime |-> file.mtime + 1]

writeIfChanged_keepExisting(file, content) ==
  IF file.exists
  THEN file
  ELSE [exists |-> TRUE, content |-> content, mtime |-> file.mtime + 1]

(* A configuration file on disk: mtime counts the writes made to it.       *)
writeIfChanged(file, content) ==
  IF file.exists /\ file.content = content
  THEN file
  ELSE [exists |-> TRUE, content |-> content, mtime |-> file.mtime + 1]

DEFAULT_ROW ==
  [id |-> "default", name |-> "Codex Max (default)", base_model_id |-> "codex-max"]

EffectiveRows(outcome) ==
  LET db == readModelsFromDb(outcome)
  IN IF db.models # <<>> THEN db.models ELSE FALLBACK_MODELS

(* Variant of WithDefaultRow that takes the rows as they come.            *)
WithDefaultRow_asGiven(rows0) == rows0

WithDefaultRow(rows0) ==
  IF \E i \in 1..Len(rows0) : rows0[i].id = "default"
  THEN rows0 ELSE <<DEFAULT_ROW>> \o rows0

(* The part of loadProfilesAndSyncConfigs after buildProfileMap.           *)
syncConfigs(built, source, main, sec) ==
  LET map          == built.map
      mainProfiles == SelectSeq(map, NonSecurity)
      mainDefault  == IF mainProfiles # <<>> THEN mainProfiles[1].id
                      ELSE IF MapHas(map, "security") THEN Null
                      ELSE built.defaultProfile
  IN [profiles |-> map,
      defaultProfile |-> OrElse(mainDefault, built.defaultProfile),
      source |-> source,
      main |-> Let(renderMainConfig(map, mainDefault),
                   LAMBDA mainConfig : writeIfChanged(main, mainConfig)),
      sec  |-> IF MapHas(map, "security")
               THEN Let(renderSecurityConfig(MapGet(map, "security")),
                        LAMBDA secConfig : writeIfChanged(sec, secConfig))
               ELSE sec]

(* loadProfilesAndSyncConfigs: the registry it returns and the two files   *)
(* as it leaves them, given the files as it finds them.                    *)
loadProfilesAndSyncConfigs(outcome, main, sec) ==
  Let(buildProfileMap(WithDefaultRow(EffectiveRows(outcome))),
      LAMBDA built : syncConfigs(built, readModelsFromDb(outcome).source, main, sec))

----------------------------------------------------------------------------
(* Launching the wrapped tool *)

MAIN_CODEX_HOME == "__dirname"
SECURITY_CODEX_HOME == "__dirname/profiles/security"

(* Variant of buildEnvForProfile that lets an inherited CODEX_HOME win.    *)
buildEnvForProfile_keepInherited(processEnv, isSecurity) ==
  [processEnv EXCEPT !.CODEX_CONFIG = Undef,
                     !.CODEX_QUIET = "1",
                     !.CODEX_HOME = IF processEnv.CODEX_HOME # Undef
                                    THEN processEnv.CODEX_HOME
                                    ELSE IF isSecurity THEN SECURITY_CODEX_HOME
                                    ELSE MAIN_CODEX_HOME]

buildEnvForProfile(processEnv, isSecurity) ==
  LET stripped == [processEnv EXCEPT !.CODEX_HOME = Undef, !.CODEX_CONFIG = Undef]
  IN [stripped EXCEPT !.CODEX_QUIET = "1",
                      !.CODEX_HOME = IF isSecurity THEN SECURITY_CODEX_HOME
                                     ELSE MAIN_CODEX_HOME]

(* Variant of resolveProfile that falls back to the default profile when  *)
(* the requested one is unknown.                                           *)
resolveProfile_fallback(profiles, requestedProfile, defaultProfile) ==
  LET requested  == normalizeProfileId(requestedProfile)
      normalized == IF ~Falsy(requested) /\ MapHas(profiles, requested)
                    THEN requested ELSE defaultProfile
  IN IF Falsy(normalized) \/ ~MapHas(profiles, normalized)
     THEN [id |-> Null, isSecurity |-> FALSE]
     ELSE [id |-> normalized, isSecurity |-> normalized = "security"]

resolveProfile(profiles, requestedProfile, defaultProfile) ==
  LET normalized == OrElse(normalizeProfileId(requestedProfile), defaultProfile)
  IN IF Falsy(normalized) \/ ~MapHas(profiles, normalized)
     THEN [id |-> Null, isSecurity |-> FALSE]
     ELSE [id |-> normalized, isSecurity |-> normalized = "security"]

BYPASS_FLAG == "--dangerously-bypass-approvals-and-sandbox"

globalArgs(profileId) ==
  LET sandbox  == IF profileId = "default" THEN "danger-full-access" ELSE "workspace-write"
      approval == IF profileId = "security" THEN "untrusted" ELSE "on-request"
  IN IF profileId = "security"
     THEN <<"-a", approval, "--sandbox", sandbox, "--profile", "security">>
     ELSE <<BYPASS_FLAG>>
          \o (IF ~Falsy(profileId) /\ profileId # "default"
              THEN <<"--profile", profileId>> ELSE <<>>)

runCodexArgs(profileId, prompt, model) ==
  globalArgs(profileId) \o <<"exec", "--skip-git-repo-check">>
  \o (IF Falsy(model) THEN <<>> ELSE <<"-m", model>>)
  \o <<prompt>>

(* Variant of resumeCodexArgs that resumes every profile with the bypass  *)
(* flag.                                                                   *)
resumeCodexArgs_bypass(profileId, prompt) ==
  <<BYPASS_FLAG>> \o <<"exec", "resume", "--last", prompt>>

resumeCodexArgs(profileId, prompt) ==
  globalArgs(profileId) \o <<"exec", "resume", "--last", prompt>>

DEFAULT_TIMEOUT == 300

(* The timeout argument is a number of seconds; 0 stands for every falsy   *)
(* value of it (absent or zero).                                           *)
runCodexTimeout(timeout) ==
  (IF timeout = 0 THEN DEFAULT_TIMEOUT ELSE timeout) * 1000

RESUME_TIMEOUT_MS == 300000

----------------------------------------------------------------------------
(* Requests, handlers and responses *)

NoPath == <<"<absent>">>

Req(method, tool, profile, prompt, model, timeout, fresh, path, content) ==
  [method |-> method, tool |-> tool, profile |-> profile, prompt |-> prompt,
   model |-> model, timeout |-> timeout, fresh |-> fresh,
   path |-> path, content |-> content]

NoContent == <<"<absent>">>

PlainReq(method) == Req(method, Undef, Undef, Undef, Undef, 0, Undef, NoPath, NoContent)

CodexReq(tool, profile, prompt, model, timeout) ==
  Req("tools/call", tool, profile, prompt, model, timeout, Undef, NoPath, NoContent)

(* A codex_run call that also passes the `fresh` argument.                 *)
FreshReq(profile, prompt, fresh) ==
  Req("tools/call", "codex_run", profile, prompt, Undef, 0, fresh, NoPath, NoContent)

FsReq(tool, path, content) ==
  Req("tools/call", tool, Undef, Undef, Undef, 0, Undef, path, content)

NoReg == [done |-> FALSE, profiles |-> <<>>, defaultProfile |-> Null,
          source |-> "<none>", rows |-> <<>>, query |-> [code |-> 1, rows |-> <<>>]]

NoLaunch == [spawned |-> FALSE, mode |-> "<none>", profileId |-> Null,
             args |-> <<>>, home |-> Undef, timeout |-> 0, cfg |-> <<>>,
             signal |-> "<none>", captured |-> 0, error |-> FALSE,
             stderr |-> <<>>, closed |-> FALSE]

(* What runCodex or resumeCodex resolves to.  Output text is a sequence   *)
(* of tokens.                                                              *)
NoOutcome == [set |-> FALSE, code |-> 0, stdout |-> <<>>, stderr |-> <<>>]

Outcome(code, stdout, stderr) ==
  [set |-> TRUE, code |-> code, stdout |-> stdout, stderr |-> stderr]

NoIo == [op |-> "none", path |-> <<>>]

NoResult == [type |-> "none", isError |-> FALSE, kind |-> "<none>", detail |-> <<>>]

Result(kind, detail) ==
  [type |-> "result", isError |-> FALSE, kind |-> kind, detail |-> detail]

ErrorResult(kind, detail) ==
  [type |-> "result", isError |-> TRUE, kind |-> kind, detail |-> detail]

RpcError(code, detail) ==
  [type |-> "error", isError |-> FALSE, kind |-> code, detail |-> detail]

NewHandler(req) ==
  [req |-> req, pc |-> "done", reg |-> NoReg, launch |-> NoLaunch,
   spawns |-> 0, io |-> NoIo, outcome |-> NoOutcome, result |-> NoResult]

CodexTools == {"codex_run", "codex_resume", "codex_profiles"}
FsTools == {"fs_read", "fs_write", "fs_list"}

----------------------------------------------------------------------------
(* Filesystem tools *)

READ_CAP == 256000

Slice(content, cap) ==
  IF Len(content) > cap THEN SubSeq(content, 1, cap) ELSE content

RootPath == PathResolve(<<>>, WORKDIR)

IsProperPrefixSegs(a, b) ==
  Len(a) < Len(b) /\ SubSeq(b, 1, Len(a)) = a

(* An entry of the file map that is a directory made by mkdirSync.         *)
DirMarker == <<"<dir>">>

(* Directories that exist: the work directory (created at start), its     *)
(* ancestors, the ancestors of every entry, and the entries made by        *)
(* mkdirSync.                                                              *)
IsDirectory(files, path) ==
  \/ AbsSegs(path) = AbsSegs(RootPath)
  \/ IsProperPrefixSegs(AbsSegs(path), AbsSegs(RootPath))
  \/ \E f \in DOMAIN files : IsProperPrefixSegs(AbsSegs(path), AbsSegs(f))
  \/ \E f \in DOMAIN files : files[f] = DirMarker /\ AbsSegs(f) = AbsSegs(path)

IsFile(files, path) == path \in DOMAIN files /\ files[path] # DirMarker

ParentIsFile(files, path) ==
  \E f \in DOMAIN files :
    files[f] # DirMarker /\ IsProperPrefixSegs(AbsSegs(f), AbsSegs(path))

Dirname(path) ==
  LET segs == AbsSegs(path)
  IN IF Len(segs) <= 1 THEN <<"/">> ELSE JoinAbs(SubSeq(segs, 1, Len(segs) - 1))

(* fs.mkdirSync(dir, { recursive: true })                                 *)
mkdirSync(files, dir) ==
  IF IsDirectory(files, dir) THEN files
  ELSE [f \in DOMAIN files \cup {dir} |-> IF f = dir THEN DirMarker ELSE files[f]]

(* Text is a sequence of UTF-16 code units: ordinary characters, "<hi>"   *)
(* (a high surrogate) and "<lo>" (a low surrogate).  Written as UTF-8, a   *)
(* surrogate pair is one code point and a surrogate on its own becomes    *)
(* the replacement character.                                              *)
RECURSIVE Utf8Encode(_)
Utf8Encode(units) ==
  IF units = <<>> THEN <<>>
  ELSE IF Head(units) = "<hi>" /\ Len(units) >= 2 /\ units[2] = "<lo>"
       THEN <<"<astral>">> \o Utf8Encode(Tail(Tail(units)))
       ELSE IF Head(units) \in {"<hi>", "<lo>"}
            THEN <<"<fffd>">> \o Utf8Encode(Tail(units))
            ELSE <<Head(units)>> \o Utf8Encode(Tail(units))

RECURSIVE Utf8Decode(_)
Utf8Decode(bytes) ==
  IF bytes = <<>> THEN <<>>
  ELSE IF Head(bytes) = "<astral>"
       THEN <<"<hi>", "<lo>">> \o Utf8Decode(Tail(bytes))
       ELSE <<Head(bytes)>> \o Utf8Decode(Tail(bytes))

(* Variant of writeFileSync that appends to what the file holds.           *)
writeFileSync_append(files, path, data) ==
  [f \in DOMAIN files \cup {path} |->
     IF f = path
     THEN (IF path \in DOMAIN files THEN files[path] ELSE <<>>) \o Utf8Encode(data)
     ELSE files[f]]

writeFileSync(files, path, data) ==
  [f \in DOMAIN files \cup {path} |-> IF f = path THEN Utf8Encode(data) ELSE files[f]]

readFileSync(files, path) == Utf8Decode(files[path])

SandboxAccepts(fullPath) == StartsWith(fullPath, WORKDIR)

(* The filesystem part of handleToolCall: the operation performed, the    *)
(* files afterwards and the result returned.                               *)
fsToolCall(tool, path, content, files) ==
  LET arg      == IF tool = "fs_list" /\ (path = NoPath \/ path = <<>>)
                  THEN <<".">> ELSE path
      fullPath == PathResolve(WORKDIR, arg)
  IN IF arg = NoPath
     THEN [io |-> NoIo, files |-> files,
           result |-> ErrorResult("Error: TypeError", <<>>)]
     ELSE IF ~SandboxAccepts(fullPath)
     THEN [io |-> NoIo, files |-> files,
           result |-> ErrorResult("Error: Path outside workdir", <<>>)]
     ELSE IF tool = "fs_read"
     THEN [io |-> [op |-> "read", path |-> fullPath], files |-> files,
           result |-> IF IsFile(files, fullPath)
                      THEN Result("file", Slice(readFileSync(files, fullPath), READ_CAP))
                      ELSE IF IsDirectory(files, fullPath)
                      THEN ErrorResult("Error: EISDIR", <<>>)
                      ELSE ErrorResult("Error: ENOENT", <<>>)]
     ELSE IF tool = "fs_write"
     THEN IF ParentIsFile(files, fullPath)
          THEN [io |-> [op |-> "write", path |-> fullPath], files |-> files,
                result |-> ErrorResult("Error: ENOTDIR", <<>>)]
          ELSE IF content = NoContent
          THEN [io |-> [op |-> "write", path |-> fullPath],
                files |-> mkdirSync(files, Dirname(fullPath)),
                result |-> ErrorResult("Error: TypeError", <<>>)]
          ELSE IF IsDirectory(files, fullPath)
          THEN [io |-> [op |-> "write", path |-> fullPath], files |-> files,
                result |-> ErrorResult("Error: EISDIR", <<>>)]
          ELSE [io |-> [op |-> "write", path |-> fullPath],
                files |-> writeFileSync(files, fullPath, content),
                result |-> Result("Written", arg)]
     ELSE [io |-> [op |-> "list", path |-> fullPath], files |-> files,
           result |-> IF IsDirectory(files, fullPath)
                      THEN Result("list", <<>>)
                      ELSE IF IsFile(files, fullPath)
                      THEN ErrorResult("Error: ENOTDIR", <<>>)
                      ELSE ErrorResult("Error: ENOENT", <<>>)]

----------------------------------------------------------------------------
(* The RPC loop.  readline emits the lines of one input chunk back to     *)
(* back (inLoop); the continuations of awaits already resolved wait in    *)
(* the microtask queue, which drains before the next event is delivered.  *)

serverEnv == [CODEX_HOME |-> envHome, CODEX_CONFIG |-> Undef, CODEX_QUIET |-> Undef]

Send(h) == Append(out, h)

Finish(hs, h, result) ==
  [hs EXCEPT ![h].pc = "done", ![h].result = result]

(* The lines handleMessage answers nothing to: a line JSON.parse rejects, *)
(* the JSON value null (destructuring it throws inside the try), and the  *)
(* initialized notification.                                               *)
SilentMethods_noNotification == {"<garbage>", "<json null>"}

SilentMethods == {"<garbage>", "<json null>", "notifications/initialized"}

(* rl.on('line') up to the handler's first suspension.                     *)
Dispatch(req, more, bound) ==
  LET h  == Len(handlers) + 1
      hs == Append(handlers, NewHandler(req))
  IN /\ Len(handlers) < bound
     /\ inLoop \/ microtasks = <<>>
     /\ more => h < bound
     /\ inLoop' = more
     /\ UNCHANGED <<WORKDIR, envHome, cfgMain, cfgSec, lastRows>>
     /\ CASE req.method \in SilentMethods ->
               /\ handlers' = hs
               /\ UNCHANGED <<microtasks, out, fsFiles>>
          [] req.method \in {"initialize", "tools/list"} ->
               /\ handlers' = Finish(hs, h, Result(req.method, <<>>))
               /\ out' = Send(h)
               /\ UNCHANGED <<microtasks, fsFiles>>
          [] req.method = "tools/call" /\ req.tool = "<no params>" ->
               /\ handlers' = Finish(hs, h, RpcError("-32000", <<>>))
               /\ out' = Send(h)
               /\ UNCHANGED <<microtasks, fsFiles>>
          [] req.method = "tools/call" /\ req.tool \in FsTools ->
               LET r == fsToolCall(req.tool, req.path, req.content, fsFiles)
               IN /\ handlers' = [hs EXCEPT ![h].pc = "respond",
                                            ![h].io = r.io,
                                            ![h].result = r.result]
                  /\ fsFiles' = r.files
                  /\ microtasks' = Append(microtasks, h)
                  /\ UNCHANGED out
          [] req.method = "tools/call" /\ req.tool \in CodexTools ->
               /\ handlers' = [hs EXCEPT ![h].pc = "query", ![h].spawns = 1]
               /\ UNCHANGED <<microtasks, out, fsFiles>>
          [] req.method = "tools/call" /\ req.tool \notin FsTools \cup CodexTools
                                       /\ req.tool # "<no params>" ->
               /\ handlers' = [hs EXCEPT ![h].pc = "respond",
                                 ![h].result = ErrorResult("Unknown tool", <<>>)]
               /\ microtasks' = Append(microtasks, h)
               /\ UNCHANGED <<out, fsFiles>>
          [] OTHER ->
               /\ handlers' = Finish(hs, h, RpcError("-32601", <<>>))
               /\ out' = Send(h)
               /\ UNCHANGED <<microtasks, fsFiles>>

(* The continuation of handleMessage after `await handleToolCall(...)`    *)
(* for a call that returned without suspending.                            *)
RunMicrotask ==
  /\ ~inLoop
  /\ microtasks # <<>>
  /\ LET h == Head(microtasks)
     IN /\ handlers' = [handlers EXCEPT ![h].pc = "done"]
        /\ out' = Send(h)
  /\ microtasks' = Tail(microtasks)
  /\ UNCHANGED <<WORKDIR, envHome, stdin, inLoop, cfgMain, cfgSec, fsFiles, lastRows>>

profilesListing(reg) ==
  [list |-> [i \in 1..Len(reg.profiles) |->
               [id |-> reg.profiles[i].id, name |-> reg.profiles[i].name,
                baseModel |-> reg.profiles[i].baseModel,
                isolated |-> reg.profiles[i].id = "security"]],
   default |-> reg.defaultProfile,
   source |-> reg.source]

(* The 'close' event of the sqlite3 process of handler h and everything   *)
(* that runs from it until the handler suspends again or responds.        *)
DbClose(h, outcome) ==
  /\ ~inLoop
  /\ microtasks = <<>>
  /\ h \in 1..Len(handlers)
  /\ handlers[h].pc = "query"
  /\ \E sync \in {loadProfilesAndSyncConfigs(outcome, cfgMain, cfgSec)} :
     LET req  == handlers[h].req
         reg  == [done |-> TRUE, profiles |-> sync.profiles,
                  defaultProfile |-> sync.defaultProfile,
                  source |-> sync.source, rows |-> EffectiveRows(outcome),
                  query |-> outcome]
         rp   == resolveProfile(sync.profiles, req.profile, sync.defaultProfile)
         hs   == [handlers EXCEPT ![h].reg = reg]
     IN /\ cfgMain' = sync.main
        /\ cfgSec' = sync.sec
        /\ lastRows' = EffectiveRows(outcome)
        /\ IF req.tool = "codex_profiles"
           THEN /\ handlers' = Finish(hs, h, Result("profiles", profilesListing(reg)))
                /\ out' = Send(h)
           ELSE IF rp.id = Null /\ ~Falsy(req.profile)
           THEN /\ handlers' = Finish(
                     [hs EXCEPT ![h].outcome =
                        Outcome(1, <<>>, <<"Unknown profile", req.profile>>)],
                     h, Result("stderr: Unknown profile", req.profile))
                /\ out' = Send(h)
           ELSE /\ handlers' =
                     [hs EXCEPT ![h].pc = "running",
                                ![h].spawns = @ + 1,
                                ![h].launch =
                                   [spawned |-> TRUE,
                                    mode |-> req.tool,
                                    profileId |-> rp.id,
                                    args |-> IF req.tool = "codex_run"
                                             THEN runCodexArgs(rp.id, req.prompt, req.model)
                                             ELSE resumeCodexArgs(rp.id, req.prompt),
                                    home |-> buildEnvForProfile(serverEnv, rp.isSecurity).CODEX_HOME,
                                    timeout |-> IF req.tool = "codex_run"
                                                THEN runCodexTimeout(req.timeout)
                                                ELSE RESUME_TIMEOUT_MS,
                                    cfg |-> IF buildEnvForProfile(serverEnv, rp.isSecurity).CODEX_HOME
                                                 = SECURITY_CODEX_HOME
                                            THEN sync.sec.content
                                            ELSE sync.main.content,
                                    signal |-> "<none>",
                                    captured |-> 0,
                                    error |-> FALSE,
                                    stderr |-> <<>>,
                                    closed |-> FALSE]]
                /\ UNCHANGED out
  /\ UNCHANGED <<WORKDIR, envHome, stdin, microtasks, inLoop, fsFiles>>

(* Variant of trimOutput that keeps the head of the text, not its tail.   *)
trimOutput_head(str, limit) ==
  IF str = <<>> THEN <<>>
  ELSE IF Len(str) > limit
       THEN <<"...[truncated]...">> \o SubSeq(str, 1, limit)
       ELSE str

(* A text is a sequence of characters; the marker '...[truncated]...\n'   *)
(* and the other fixed strings of the server count as one character each. *)
trimOutput(str, limit) ==
  IF str = <<>> THEN <<>>
  ELSE IF Len(str) > limit
       THEN <<"...[truncated]...">> \o SubSeq(str, Len(str) - limit + 1, Len(str))
       ELSE str

STDOUT_LIMIT == 50000
STDERR_LIMIT == 5000

(* The exit code of the 'close' event of a child that a signal ended.     *)
KilledCode == -1

(* The text handleToolCall returns for an outcome of runCodex/resumeCodex. *)
Whitespace == {" ", "\n"}

(* String.prototype.trim: the text without its leading and trailing       *)
(* whitespace.                                                             *)
RECURSIVE FirstKept(_, _)
FirstKept(str, i) ==
  IF str[i] \notin Whitespace THEN i ELSE FirstKept(str, i + 1)

RECURSIVE LastKept(_, _)
LastKept(str, i) ==
  IF str[i] \notin Whitespace THEN i ELSE LastKept(str, i - 1)

TrimOf(str) ==
  IF \A i \in 1..Len(str) : str[i] \in Whitespace THEN <<>>
  ELSE SubSeq(str, FirstKept(str, 1), LastKept(str, Len(str)))

Trim(str) == Let(str, TrimOf)

combinedText(outcome) ==
  LET combined == Trim(outcome.stdout
                       \o (IF outcome.stderr # <<>>
                           THEN <<"stderr:">> \o outcome.stderr ELSE <<>>))
  IN IF combined = <<>> THEN <<"(no output)">> ELSE combined

(* The first n characters a child writes to a stream: lines "ok".         *)
CapturedOutput(n) ==
  [i \in 1..n |-> CASE i % 3 = 1 -> "o" [] i % 3 = 2 -> "k" [] OTHER -> "\n"]

closeOutcome(launch, code, stderr) ==
  IF launch.mode = "codex_run"
  THEN Outcome(code,
               <<"[profile]", OrElse(launch.profileId, "default")>>
                 \o trimOutput(CapturedOutput(launch.captured), STDOUT_LIMIT),
               trimOutput(stderr, STDERR_LIMIT))
  ELSE Outcome(code,
               trimOutput(CapturedOutput(launch.captured), STDOUT_LIMIT),
               trimOutput(stderr, STDERR_LIMIT))

ChildEvent(h) ==
  /\ ~inLoop
  /\ microtasks = <<>>
  /\ h \in 1..Len(handlers)
  /\ handlers[h].pc = "running"
  /\ UNCHANGED <<WORKDIR, envHome, stdin, microtasks, inLoop, cfgMain, cfgSec, fsFiles, lastRows>>

Resolve(hs, h, outcome) ==
  /\ handlers' = Finish([hs EXCEPT ![h].outcome = outcome], h,
                        Result("output", combinedText(outcome)))
  /\ out' = Send(h)

(* The 'close' event of the wrapped tool's process of handler h: it has   *)
(* exited, or a signal has ended it, and its output streams are closed.   *)
ChildClose(h, code, stderr) ==
  /\ ChildEvent(h)
  /\ code = KilledCode => handlers[h].launch.signal # "<none>"
  /\ Resolve([handlers EXCEPT ![h].launch.stderr = stderr, ![h].launch.closed = TRUE],
             h, closeOutcome(handlers[h].launch, code, stderr))

CodexClose(h, code) == ChildClose(h, code, <<>>)

(* Variant of errorOutcome that resolves like a close without an exit    *)
(* code and drops the message.                                             *)
errorOutcome_asClose(message) == Outcome(KilledCode, <<>>, <<>>)

errorOutcome(message) == Outcome(1, <<>>, <<message>>)

SPAWN_ERROR == "spawn codex ENOENT"

(* The 'error' event: the executable could not be spawned.                 *)
ChildError(h) ==
  /\ ChildEvent(h)
  /\ handlers[h].launch.signal = "<none>"
  /\ handlers[h].launch.captured = 0
  /\ Resolve([handlers EXCEPT ![h].launch.error = TRUE], h, errorOutcome(SPAWN_ERROR))

(* A 'data' event on the child's standard output.                         *)
ChildOutput(h, bound) ==
  /\ ChildEvent(h)
  /\ handlers[h].launch.captured < bound
  /\ handlers' = [handlers EXCEPT ![h].launch.captured = @ + 1]
  /\ UNCHANGED out

(* A 'data' event that delivers n characters at once.                     *)
ChildBurst(h, n, bound) ==
  /\ ChildEvent(h)
  /\ handlers[h].launch.captured + n <= bound
  /\ handlers' = [handlers EXCEPT ![h].launch.captured = @ + n]
  /\ UNCHANGED out

(* The 'close' event that follows the 'error' event of a failed spawn:    *)
(* its resolve finds the promise settled and changes nothing.             *)
ChildLateClose(h) ==
  /\ ~inLoop
  /\ microtasks = <<>>
  /\ h \in 1..Len(handlers)
  /\ handlers[h].launch.error
  /\ ~handlers[h].launch.closed
  /\ handlers' = [handlers EXCEPT ![h].launch.closed = TRUE]
  /\ UNCHANGED <<WORKDIR, envHome, stdin, microtasks, inLoop, out, cfgMain, cfgSec,
                 fsFiles, lastRows>>

(* The timeout given to spawn expires: the runtime sends the child the    *)
(* default kill signal, once.                                              *)
ChildTimeout(h) ==
  /\ ChildEvent(h)
  /\ handlers[h].launch.signal = "<none>"
  /\ handlers' = [handlers EXCEPT ![h].launch.signal = "SIGTERM"]
  /\ UNCHANGED out

----------------------------------------------------------------------------
(* Inputs *)

Row(id, name, base) == [id |-> id, name |-> name, base_model_id |-> base]

DbFailure == [code |-> 1, rows |-> <<>>]

DbRows(rows) == [code |-> 0, rows |-> rows]

DbOutcomes ==
  { DbFailure,
    DbRows(<< Row("fast", "Fast", "m1") >>),
    DbRows(<< Row("x1", "", KIMI_MODEL), Row("default", "D", "m2") >>) }

AbsentFile == [exists |-> FALSE, content |-> <<>>, mtime |-> 0]
StaleFile == [exists |-> TRUE, content |-> << <<"# stale">> >>, mtime |-> 0]

Requests ==
  { PlainReq("<garbage>"), PlainReq("initialize"),
    FsReq("fs_write", <<"d">>, <<"h", "i">>),
    FsReq("fs_read", <<"d">>, NoContent),
    CodexReq("codex_profiles", Undef, Undef, Undef, 0) }
  \cup { CodexReq("codex_run", pr, "task", Undef, 0) : pr \in {Undef, "kimi", "nonexistent"} }
  \cup { CodexReq("codex_resume", pr, "task", Undef, 0) : pr \in {"fast"} }

ExitCodes == {0, 1}

----------------------------------------------------------------------------
(* The server *)

InitCommon ==
  /\ handlers = <<>>
  /\ microtasks = <<>>
  /\ inLoop = FALSE
  /\ out = <<>>
  /\ fsFiles = [f \in {} |-> <<>>]
  /\ lastRows = <<>>

Init ==
  /\ InitCommon
  /\ stdin = <<>>
  /\ WORKDIR = <<"/", "d">>
  /\ envHome = Undef
  /\ \E f \in {AbsentFile, StaleFile} : cfgMain = f /\ cfgSec = f

Line ==
  /\ \E req \in Requests, more \in BOOLEAN : Dispatch(req, more, MaxLines)
  /\ UNCHANGED stdin

Microtask == RunMicrotask

QueryDone == \E h \in 1..Len(handlers), o \in DbOutcomes : DbClose(h, o)

ChildDone == \E h \in 1..Len(handlers), c \in ExitCodes : CodexClose(h, c)

Next == Line \/ Microtask \/ QueryDone \/ ChildDone

Spec == Init /\ [][Next]_vars

(* The next line of standard input, for the specifications whose input is *)
(* drawn in the initial state.                                             *)
StdinLine ==
  /\ stdin # <<>>
  /\ Dispatch(Head(stdin), FALSE, Len(handlers) + 1)
  /\ stdin' = Tail(stdin)

----------------------------------------------------------------------------
(* The filesystem tools on every short path *)

Chars == {"/", ".", "d"}

RECURSIVE Strings(_)
Strings(n) ==
  IF n = 0 THEN {<<>>}
  ELSE LET S == Strings(n - 1)
       IN S \cup {Append(t, c) : t \in {u \in S : Len(u) = n - 1}, c \in Chars}

Roots == { <<"/", "d">>, <<"/", "d", "/">>, <<"d">> }

FsRequests ==
  { FsReq("fs_read", p, NoContent) : p \in Strings(MaxPathLen) }
  \cup { FsReq("fs_write", p, <<"h", "i">>) : p \in Strings(MaxPathLen) }
  \cup { FsReq("fs_list", p, NoContent) : p \in Strings(MaxPathLen) \cup {NoPath} }

InitSandbox ==
  /\ InitCommon
  /\ \E req \in FsRequests : stdin = <<req>>
  /\ WORKDIR \in Roots
  /\ envHome = Undef
  /\ cfgMain = AbsentFile
  /\ cfgSec = AbsentFile

NextSandbox == StdinLine \/ Microtask

SpecSandbox == InitSandbox /\ [][NextSandbox]_vars

----------------------------------------------------------------------------
(* Launches of the wrapped tool for every combination of arguments *)

LaunchProfiles == {Undef, "", "default", "fast", "kimi", "x1", "nonexistent"}
LaunchPrompts == {"task", BYPASS_FLAG}
LaunchModels == {Undef, "m9"}
LaunchTimeouts == {0, 5}
InheritedHomes == {Undef, MAIN_CODEX_HOME, SECURITY_CODEX_HOME, "/elsewhere"}

LaunchRequests ==
  { CodexReq("codex_run", pr, prompt, m, t) :
      pr \in LaunchProfiles, prompt \in LaunchPrompts,
      m \in LaunchModels, t \in LaunchTimeouts }
  \cup { CodexReq("codex_resume", pr, prompt, Undef, 0) :
           pr \in LaunchProfiles, prompt \in LaunchPrompts }
  \cup { FreshReq(pr, "task", f) : pr \in {Undef, "kimi"}, f \in {True, False} }

InitLaunch ==
  /\ InitCommon
  /\ \E req \in LaunchRequests : stdin = <<req>>
  /\ WORKDIR = <<"/", "d">>
  /\ envHome \in InheritedHomes
  /\ cfgMain = AbsentFile
  /\ cfgSec = AbsentFile

NextLaunch == StdinLine \/ QueryDone \/ ChildDone

SpecLaunch == InitLaunch /\ [][NextLaunch]_vars

----------------------------------------------------------------------------
(* Sequences of refreshes over every short row list *)

SyncRows ==
  { Row("kimi", "Kimi", "m1"), Row("x1", "", KIMI_MODEL), Row("x1", "X", "m1") }

RECURSIVE RowLists(_)
RowLists(n) ==
  IF n = 0 THEN {<<>>}
  ELSE LET S == RowLists(n - 1)
       IN S \cup {Append(t, r) : t \in {u \in S : Len(u) = n - 1}, r \in SyncRows}

SyncOutcomes == {DbFailure} \cup { DbRows(rows) : rows \in RowLists(MaxRows) }

SyncRequests ==
  { CodexReq("codex_profiles", Undef, Undef, Undef, 0),
    CodexReq("codex_run", "kimi", BYPASS_FLAG, "m9", 5) }

InitSync ==
  /\ InitCommon
  /\ stdin = <<>>
  /\ WORKDIR = <<"/", "d">>
  /\ envHome = Undef
  /\ cfgMain \in {AbsentFile, StaleFile}
  /\ cfgSec \in {AbsentFile, StaleFile}

SyncLine ==
  /\ \E req \in SyncRequests, more \in BOOLEAN : Dispatch(req, more, MaxRefresh)
  /\ UNCHANGED stdin

SyncQueryDone == \E h \in 1..Len(handlers), o \in SyncOutcomes : DbClose(h, o)

SyncChildDone == \E h \in 1..Len(handlers) : CodexClose(h, 0)

NextSync == SyncLine \/ SyncQueryDone \/ SyncChildDone

SpecSync == InitSync /\ [][NextSync]_vars

----------------------------------------------------------------------------
(* One refresh over every outcome of the query process *)

MaxRegRows == 2

RegIds == {"default", "fast", "oss20b", "kimi", "7", "constructor"}

RegRows ==
  { Row(id, "N", "m1") : id \in RegIds }
  \cup { Row("x1", "", KIMI_MODEL), Row("security", "S", "m2"),
         Row("oss20b", "O", "m2"), Row("", "E", "m1") }

RECURSIVE RegRowLists(_)
RegRowLists(n) ==
  IF n = 0 THEN {<<>>}
  ELSE LET S == RegRowLists(n - 1)
       IN S \cup {Append(t, r) : t \in {u \in S : Len(u) = n - 1}, r \in RegRows}

(* The query process killed by the 3-second timer, with the rows it had   *)
(* printed, and the query tool missing.                                    *)
DbTimeout(rows) == [code |-> KilledCode, rows |-> rows]

DbMissing == [code |-> -2, rows |-> <<>>]

RegOutcomes ==
  {DbFailure, DbMissing, DbTimeout(<<>>), DbTimeout(<< Row("x1", "X", "m1") >>)}
  \cup { DbRows(rows) : rows \in RegRowLists(MaxRegRows) }

RegRequests ==
  { CodexReq("codex_profiles", Undef, Undef, Undef, 0) }
  \cup { CodexReq("codex_run", pr, "task", Undef, 0) :
           pr \in {Undef, "fast", "oss20b", "constructor"} }
  \cup { CodexReq("codex_resume", pr, "task", Undef, 0) :
           pr \in {Undef, "kimi", "security"} }

InitRegistry ==
  /\ InitCommon
  /\ \E req \in RegRequests : stdin = <<req>>
  /\ WORKDIR = <<"/", "d">>
  /\ envHome = Undef
  /\ cfgMain = AbsentFile
  /\ cfgSec = AbsentFile

RegQueryDone == \E h \in 1..Len(handlers), o \in RegOutcomes : DbClose(h, o)

NextRegistry == StdinLine \/ RegQueryDone \/ ChildDone

SpecRegistry == InitRegistry /\ [][NextRegistry]_vars

----------------------------------------------------------------------------
(* The life of one wrapped-tool child process.  The query process is      *)
(* killed by its own timer and the spawn timeout is a timer of the        *)
(* runtime, so both events eventually happen; whether the child exits, by *)
(* itself or after the signal, is up to the child.                        *)

MaxChunks == 2

ChildRequests ==
  { CodexReq("codex_run", pr, "task", Undef, t) :
      pr \in {Undef, "kimi", "nonexistent"}, t \in {0, 5} }
  \cup { CodexReq("codex_resume", pr, "task", Undef, t) :
           pr \in {Undef, "fast"}, t \in {0, 5} }

ChildStderr == { <<>>, <<"e">> }

InitChild ==
  /\ InitCommon
  /\ \E req \in ChildRequests : stdin = <<req>>
  /\ WORKDIR = <<"/", "d">>
  /\ envHome = Undef
  /\ cfgMain = AbsentFile
  /\ cfgSec = AbsentFile

ChildData == \E h \in 1..Len(handlers) : ChildOutput(h, MaxChunks)

ChildExpire == \E h \in 1..Len(handlers) : ChildTimeout(h)

ChildExit ==
  \E h \in 1..Len(handlers), c \in ExitCodes \cup {KilledCode}, e \in ChildStderr :
    ChildClose(h, c, e)

ChildSpawnFail == \E h \in 1..Len(handlers) : ChildError(h)

ChildClosedLate == \E h \in 1..Len(handlers) : ChildLateClose(h)

NextChild ==
  \/ StdinLine \/ QueryDone \/ ChildData \/ ChildExpire \/ ChildExit
  \/ ChildSpawnFail \/ ChildClosedLate

SpecChild ==
  /\ InitChild
  /\ [][NextChild]_vars
  /\ WF_vars(StdinLine)
  /\ WF_vars(QueryDone)
  /\ WF_vars(ChildExpire)

----------------------------------------------------------------------------
(* Output around the truncation limits *)

MaxCaptured == 50002

(* The child writes nothing, one character, or a chunk one short of the  *)
(* limit followed by single characters.                                   *)
BurstSizes == {1, STDOUT_LIMIT - 1}

TrimStderr == { CapturedOutput(n) : n \in {0, 2, STDERR_LIMIT, STDERR_LIMIT + 1} }

TrimRequests ==
  { CodexReq(tool, pr, "task", Undef, 0) :
      tool \in {"codex_run", "codex_resume"}, pr \in {Undef, "kimi"} }

InitTrim ==
  /\ InitCommon
  /\ \E req \in TrimRequests : stdin = <<req>>
  /\ WORKDIR = <<"/", "d">>
  /\ envHome = Undef
  /\ cfgMain = AbsentFile
  /\ cfgSec = AbsentFile

TrimData ==
  \E h \in 1..Len(handlers), n \in BurstSizes :
    /\ handlers[h].launch.captured \in {0} \cup (STDOUT_LIMIT - 1 .. MaxCaptured)
    /\ ChildBurst(h, n, MaxCaptured)

TrimExit == \E h \in 1..Len(handlers), e \in TrimStderr : ChildClose(h, 0, e)

NextTrim == StdinLine \/ QueryDone \/ TrimData \/ TrimExit

SpecTrim == InitTrim /\ [][NextTrim]_vars

----------------------------------------------------------------------------
(* Writes followed by a read of the same path *)

MaxFilePathLen == 3

FilePaths == Strings(MaxFilePathLen)

FileContents ==
  { <<>>, <<"h", "i">>, <<"h", "<hi>", "<lo>">>, <<"<hi>">>, <<"<lo>", "<hi>">>, NoContent }

FileScripts ==
  { << FsReq("fs_write", p, c), FsReq("fs_read", p, NoContent) >> :
      p \in FilePaths, c \in FileContents }
  \cup { << FsReq("fs_write", p, <<"o", "l", "d">>), FsReq("fs_write", p, c),
            FsReq("fs_read", p, NoContent) >> :
           p \in FilePaths, c \in FileContents }

InitFiles ==
  /\ InitCommon
  /\ stdin \in FileScripts
  /\ WORKDIR \in Roots
  /\ envHome = Undef
  /\ cfgMain = AbsentFile
  /\ cfgSec = AbsentFile

NextFiles == StdinLine \/ Microtask

SpecFiles == InitFiles /\ [][NextFiles]_vars

----------------------------------------------------------------------------
(* A run-task call and a resume-task call with the same arguments *)

PairProfiles == {Undef, "default", "fast", "kimi", "nonexistent"}

PairScripts ==
  { << CodexReq("codex_run", pr, "task", m, t),
       CodexReq("codex_resume", pr, "task", m, t) >> :
      pr \in PairProfiles, m \in LaunchModels, t \in LaunchTimeouts }

InitPair ==
  /\ InitCommon
  /\ stdin \in PairScripts
  /\ WORKDIR = <<"/", "d">>
  /\ envHome \in {Undef, "/elsewhere"}
  /\ cfgMain = AbsentFile
  /\ cfgSec = AbsentFile

NextPair == StdinLine \/ QueryDone \/ ChildDone

SpecPair == InitPair /\ [][NextPair]_vars

----------------------------------------------------------------------------
(* Every short sequence of input lines *)

MaxRpcLines == 3

RpcLines ==
  { PlainReq(m) : m \in {"<garbage>", "<json null>", Undef, "initialize",
                         "notifications/initialized", "bogus/method"} }
  \cup { Req("tools/call", t, Undef, Undef, Undef, 0, Undef, NoPath, NoContent) :
           t \in {"<no params>", "fs_list"} }

RECURSIVE RpcScripts(_)
RpcScripts(n) ==
  IF n = 0 THEN {<<>>}
  ELSE LET S == RpcScripts(n - 1)
       IN S \cup {Append(t, r) : t \in {u \in S : Len(u) = n - 1}, r \in RpcLines}

InitRpc ==
  /\ InitCommon
  /\ stdin \in RpcScripts(MaxRpcLines)
  /\ WORKDIR = <<"/", "d">>
  /\ envHome = Undef
  /\ cfgMain = AbsentFile
  /\ cfgSec = AbsentFile

NextRpc == StdinLine \/ Microtask

SpecRpc == InitRpc /\ [][NextRpc]_vars

----------------------------------------------------------------------------
(* Properties *)

Handlers == 1..Len(handlers)

Range(seq) == {seq[i] : i \in 1..Len(seq)}

IsTaskCall(h) == handlers[h].req.tool \in {"codex_run", "codex_resume"}

IsFsCall(h) == handlers[h].req.tool \in FsTools

Launched(h) == handlers[h].launch.spawned

(* C1: at most one RPC message is being handled at any time: a later      *)
(* line's handler does not start before every earlier line's handler,     *)
(* asynchronous work included, has completed.                             *)
C1_OneMessageAtATime ==
  \A h1, h2 \in Handlers : h1 < h2 => handlers[h1].pc = "done"

(* C2: responses are written in arrival order of their requests, and two  *)
(* wrapped-tool child processes are never alive at the same time.         *)
C2_ArrivalOrder ==
  /\ \A i, j \in 1..Len(out) : i < j => out[i] < out[j]
  /\ Cardinality({h \in Handlers : handlers[h].pc = "running"}) <= 1

UnknownProfileCall(h) ==
  /\ IsTaskCall(h)
  /\ handlers[h].reg.done
  /\ ~Falsy(handlers[h].req.profile)
  /\ ~MapHas(handlers[h].reg.profiles, normalizeProfileId(handlers[h].req.profile))

RejectedUnknown(h) ==
  /\ handlers[h].pc = "done"
  /\ handlers[h].result.kind = "stderr: Unknown profile"

(* C3 as stated: a run-task or resume-task call whose non-empty profile   *)
(* does not resolve in the refreshed registry fails with "Unknown         *)
(* profile" and no child process at all is spawned while handling it.     *)
C3_NoChildProcessAtAll ==
  \A h \in Handlers :
    UnknownProfileCall(h) => RejectedUnknown(h) /\ handlers[h].spawns = 0

(* C3 amended: such a call fails with "Unknown profile" and the wrapped   *)
(* tool is never launched for it; the only child process spawned is the   *)
(* refresh's own query process.                                           *)
C3_UnknownProfileRejected ==
  \A h \in Handlers :
    UnknownProfileCall(h) =>
      /\ RejectedUnknown(h)
      /\ ~Launched(h)
      /\ handlers[h].spawns = 1

C3_Witness ==
  \E h \in Handlers :
    /\ UnknownProfileCall(h)
    /\ handlers[h].req.profile = "kimi"
    /\ handlers[h].pc = "done"

PathGiven(h) == handlers[h].req.path # NoPath

TargetSegs(h) == AbsSegs(PathResolve(WORKDIR, handlers[h].req.path))

RootSegs == AbsSegs(RootPath)

InsideRoot(segs) == segs = RootSegs \/ IsProperPrefixSegs(RootSegs, segs)

(* C4: a path that resolves outside the sandbox root (parent escapes,     *)
(* absolute paths, siblings sharing the root's string as a prefix) is     *)
(* rejected by read-file, write-file and list-files with no I/O.          *)
C4_OutsideRejected ==
  \A h \in Handlers :
    (IsFsCall(h) /\ PathGiven(h) /\ ~InsideRoot(TargetSegs(h))) =>
      /\ handlers[h].io.op = "none"
      /\ handlers[h].result.kind = "Error: Path outside workdir"

HasParentSegment(p) == \E i \in 1..Len(SplitSlash(p)) : SplitSlash(p)[i] = <<".", ".">>

(* C5: for every configured root and every relative path without parent  *)
(* segments, the three filesystem tools pass the sandbox check and        *)
(* operate on exactly root/path.                                          *)
C5_InsideAccepted ==
  \A h \in Handlers :
    (/\ IsFsCall(h) /\ PathGiven(h)
     /\ handlers[h].req.path # <<>>
     /\ ~IsAbsolute(handlers[h].req.path)
     /\ ~HasParentSegment(handlers[h].req.path)) =>
      /\ handlers[h].io.op # "none"
      /\ AbsSegs(handlers[h].io.path)
           = RootSegs \o NormalizeSegs(SplitSlash(handlers[h].req.path), <<>>)

HasSwitch(args, flag, value) ==
  \E i \in 1..(Len(args) - 1) : args[i] = flag /\ args[i + 1] = value

HasFlag(args, flag) == flag \in Range(args)

(* C6: a launch for the isolated profile carries -a untrusted, --sandbox  *)
(* workspace-write and --profile security and never the bypass flag; a    *)
(* launch for any other profile carries the bypass flag, and a --profile  *)
(* switch exactly when the profile is not the literal default.            *)
C6_LaunchFlags ==
  \A h \in Handlers :
    Launched(h) =>
      LET a  == handlers[h].launch.args
          id == handlers[h].launch.profileId
      IN IF id = "security"
         THEN /\ HasSwitch(a, "-a", "untrusted")
              /\ HasSwitch(a, "--sandbox", "workspace-write")
              /\ HasSwitch(a, "--profile", "security")
              /\ ~HasFlag(a, BYPASS_FLAG)
         ELSE /\ HasFlag(a, BYPASS_FLAG)
              /\ HasFlag(a, "--profile") <=> id # "default"

(* C7: the CODEX_HOME given to the child is the isolated home exactly     *)
(* when the resolved profile is the isolated profile and the main home    *)
(* otherwise, whatever CODEX_HOME the server inherited.                   *)
C7_ExecutionHome ==
  \A h \in Handlers :
    Launched(h) =>
      handlers[h].launch.home =
        IF handlers[h].launch.profileId = "security"
        THEN SECURITY_CODEX_HOME ELSE MAIN_CODEX_HOME

C7_Witness ==
  \E h \in Handlers :
    /\ Launched(h)
    /\ handlers[h].launch.profileId = "security"
    /\ envHome = MAIN_CODEX_HOME

LinesOf(c, key) == {i \in 1..Len(c) : c[i][1] = key}

(* C8: whenever the isolated configuration file has been written, it has  *)
(* exactly one profile block, for the isolated profile, with approval     *)
(* policy untrusted and sandbox mode workspace-write.                     *)
C8_IsolatedConfigForced ==
  cfgSec.mtime > 0 =>
    LET c == cfgSec.content
    IN /\ Cardinality(LinesOf(c, "[profiles]")) = 1
       /\ \A i \in LinesOf(c, "[profiles]") : c[i][2] = "security"
       /\ Cardinality(LinesOf(c, "approval_policy")) = 1
       /\ \A i \in LinesOf(c, "approval_policy") : c[i] = <<"approval_policy", "security", "untrusted">>
       /\ Cardinality(LinesOf(c, "sandbox_mode")) = 1
       /\ \A i \in LinesOf(c, "sandbox_mode") : c[i] = <<"sandbox_mode", "security", "workspace-write">>

C8_Witness ==
  /\ cfgSec.mtime > 1
  /\ \E h \in Handlers : Launched(h) /\ handlers[h].launch.profileId = "security"

BlockIds(c) == {c[i][2] : i \in LinesOf(c, "[profiles]")}

RegistryIds(reg, isolated) ==
  {reg.profiles[i].id : i \in {j \in 1..Len(reg.profiles) :
                                 (reg.profiles[j].id = "security") = isolated}}

(* C9: the configuration file in the selected execution home at the       *)
(* moment of launch renders the registry the call resolved its profile    *)
(* against: its blocks are that registry's entries for that home, each    *)
(* with the entry's model, and the resolved profile is among them.        *)
C9_ConfigAtLaunch ==
  \A h \in Handlers :
    Launched(h) =>
      LET c   == handlers[h].launch.cfg
          id  == handlers[h].launch.profileId
          reg == handlers[h].reg
      IN /\ id \in BlockIds(c)
         /\ BlockIds(c) = RegistryIds(reg, handlers[h].launch.home = SECURITY_CODEX_HOME)
         /\ \A b \in BlockIds(c) :
              <<"model", b, MapGet(reg.profiles, b).baseModel>> \in Range(c)

C9_Witness ==
  \E h1, h2 \in Handlers :
    /\ h1 # h2
    /\ Launched(h1) /\ Launched(h2)
    /\ handlers[h1].pc = "running"
    /\ handlers[h1].reg.rows # handlers[h2].reg.rows
    /\ handlers[h1].launch.cfg # handlers[h2].launch.cfg

RefreshCount == Cardinality({h \in Handlers : handlers[h].reg.done})

HasIsolated(rows) == MapHas(buildProfileMap(rows).map, "security")

QueryFailed(h) ==
  /\ handlers[h].reg.done
  /\ (handlers[h].reg.query.code # 0 \/ handlers[h].reg.query.rows = <<>>)

FallbackIds ==
  {normalizeProfileId(FALLBACK_MODELS[i].id) : i \in 1..Len(FALLBACK_MODELS)}
  \cup {"default"}

ListedIds(h) ==
  {handlers[h].result.detail.list[i].id :
     i \in 1..Len(handlers[h].result.detail.list)}

(* C11: whenever the query fails, times out or returns no rows, the       *)
(* refresh raises no error, list-profiles reports source = fallback, and  *)
(* the listed profiles are exactly the static fallback set (after alias   *)
(* normalization) plus the default entry.                                 *)
C11_FallbackReported ==
  \A h \in Handlers :
    (handlers[h].req.tool = "codex_profiles" /\ QueryFailed(h)) =>
      /\ handlers[h].pc = "done"
      /\ handlers[h].result.type = "result"
      /\ ~handlers[h].result.isError
      /\ handlers[h].result.detail.source = "fallback"
      /\ ListedIds(h) = FallbackIds

DefaultLines(c) == {c[i][2] : i \in LinesOf(c, "default_profile")}

NamedDefault(profiles) ==
  LET others == SelectSeq(profiles, NonSecurity)
  IN IF MapHas(profiles, "default") THEN "default"
     ELSE IF others # <<>> THEN others[1].id
     ELSE Null

(* C12: for every row set a refresh obtains, in any row order, the        *)
(* default profile returned by the refresh, reported by list-profiles,    *)
(* written as the default_profile directive and used by a call that names *)
(* no profile is the entry named "default" whenever one exists, and only  *)
(* otherwise the first non-isolated entry.                                *)
C12_NamedDefaultPreferred ==
  \A h \in Handlers :
    handlers[h].reg.done =>
      LET d == NamedDefault(handlers[h].reg.profiles)
      IN /\ handlers[h].reg.defaultProfile = d
         /\ DefaultLines(cfgMain.content) = {d}
         /\ handlers[h].req.tool = "codex_profiles" =>
               handlers[h].result.detail.default = d
         /\ (Launched(h) /\ Falsy(handlers[h].req.profile)) =>
               handlers[h].launch.profileId = d

TimedOut == Len(handlers) = 1 /\ handlers[1].launch.signal # "<none>"

Returned ==
  /\ Len(handlers) = 1
  /\ handlers[1].pc = "done"
  /\ handlers[1].outcome.set
  /\ out = <<1>>

(* C13: if the child has not exited when its timeout expires, it is       *)
(* forcibly terminated and the call eventually returns a result with the  *)
(* output captured before termination; the call does not stay pending     *)
(* forever, whatever the child does in response to the signal.            *)
C13_TimeoutReturns == TimedOut ~> Returned

(* C14: when launching the wrapped tool fails, run-task and resume-task   *)
(* do not throw: the outcome has exit code 1, empty stdout and the launch *)
(* error message in place of stderr, and the caller receives a normal     *)
(* result, not a JSON-RPC error.                                          *)
C14_LaunchFailureOutcome ==
  \A h \in Handlers :
    handlers[h].launch.error =>
      /\ handlers[h].pc = "done"
      /\ handlers[h].outcome = Outcome(1, <<>>, <<SPAWN_ERROR>>)
      /\ handlers[h].result.type = "result"
      /\ SPAWN_ERROR \in Range(handlers[h].result.detail)
      /\ h \in Range(out)

C14_Witness ==
  \E h \in Handlers :
    /\ handlers[h].launch.error
    /\ handlers[h].launch.mode = "codex_resume"
    /\ h \in Range(out)

FsErrorKinds ==
  {"Error: Path outside workdir", "Error: ENOENT", "Error: EISDIR",
   "Error: ENOTDIR", "Error: TypeError"}

ReportedProblem(h) ==
  \/ handlers[h].outcome.set /\ handlers[h].outcome.code # 0
  \/ IsFsCall(h) /\ handlers[h].result.kind \in FsErrorKinds

(* C15: for every tools/call, a problem reported by the operation itself  *)
(* (unknown profile, out-of-bounds path, I/O error, launch failure,       *)
(* non-zero exit or timeout of the child) comes back as a normal result   *)
(* with the error flag set; a JSON-RPC error object is produced only when *)
(* the handler threw.                                                     *)
C15_ProblemsFlagged ==
  \A h \in Handlers :
    (handlers[h].req.method = "tools/call" /\ handlers[h].pc = "done") =>
      /\ ReportedProblem(h) =>
            (handlers[h].result.type = "result" /\ handlers[h].result.isError)
      /\ handlers[h].result.type = "error" => handlers[h].req.tool = "<no params>"

WriteOf(h, p) ==
  /\ handlers[h].req.tool = "fs_write"
  /\ handlers[h].req.path = p

(* C16: for every path p inside the sandbox and every content c,          *)
(* write-file(p, c) followed, with no other write to p in between, by     *)
(* read-file(p) returns c when c is within the read cap and its first     *)
(* 256,000 characters otherwise; the write overwrites what p held.        *)
C16_WriteThenRead ==
  \A hw, hr \in Handlers :
    (/\ hw < hr
     /\ handlers[hr].pc = "done"
     /\ WriteOf(hw, handlers[hr].req.path)
     /\ handlers[hr].req.tool = "fs_read"
     /\ handlers[hw].req.content # NoContent
     /\ IsProperPrefixSegs(RootSegs, TargetSegs(hw))
     /\ \A h \in Handlers : (hw < h /\ h < hr) => ~WriteOf(h, handlers[hr].req.path)) =>
      handlers[hr].result = Result("file", Slice(handlers[hw].req.content, READ_CAP))

HasResume(args) == HasSwitch(args, "resume", "--last")

(* C17: run-task first attempts to resume the last session of the         *)
(* selected profile (resume --last) and starts a brand-new session only   *)
(* when the fresh flag is true; with fresh = true no resume invocation is *)
(* issued.                                                                *)
C17_ResumeUnlessFresh ==
  \A h \in Handlers :
    (Launched(h) /\ handlers[h].req.tool = "codex_run") =>
      (HasResume(handlers[h].launch.args) <=> handlers[h].req.fresh # True)

KnownMethods == {"initialize", "notifications/initialized", "tools/list", "tools/call"}

LineResponses ==
  \A h \in Handlers :
    LET m == handlers[h].req.method
    IN /\ m = "<garbage>" =>
            (h \notin Range(out) /\ handlers[h].result.type = "none")
       /\ m = "notifications/initialized" => h \notin Range(out)
       /\ m \notin KnownMethods \cup {"<garbage>", "<json null>"} =>
            /\ handlers[h].pc = "done"
            /\ handlers[h].result = RpcError("-32601", <<>>)
            /\ h \in Range(out)

(* Reading a line that is not valid JSON changes nothing the loop        *)
(* depends on: no output, nothing queued, and the handler is finished.    *)
GarbageLineStep ==
  (/\ Len(handlers') = Len(handlers) + 1
   /\ handlers'[Len(handlers')].req.method = "<garbage>") =>
    /\ out' = out
    /\ microtasks' = microtasks
    /\ inLoop' = FALSE
    /\ handlers'[Len(handlers')].pc = "done"
    /\ SubSeq(handlers', 1, Len(handlers)) = handlers

(* C18: a line that is not valid JSON produces no output and does not     *)
(* stop the loop from handling later lines; a message whose method is not *)
(* initialize, notifications/initialized, tools/list or tools/call gets a *)
(* "method not found" error response; notifications/initialized gets no   *)
(* response.                                                              *)
C18_LineHandling == []LineResponses /\ [][GarbageLineStep]_vars

C18_Witness ==
  \E h1, h2, h3 \in Handlers :
    /\ h1 < h2 /\ h2 < h3
    /\ handlers[h1].req.method = "<garbage>"
    /\ handlers[h2].req.method = "notifications/initialized"
    /\ handlers[h3].req.method = "bogus/method"
    /\ out = <<h3>>

Identifiers ==
  AliasKeys \cup {PROFILE_ALIASES[k] : k \in AliasKeys} \cup InheritedKeys
  \cup {InheritedValue(k) : k \in InheritedKeys}
  \cup {Undef, Null, "", "x1", "7", "nonexistent"}

(* C19: alias resolution is idempotent: normalize(normalize(x)) =         *)
(* normalize(x) for every identifier x, resolving an identifier that is   *)
(* already canonical returns it unchanged, and an alias and its target    *)
(* resolve to the same entry of the same registry.                        *)
C19_AliasIdempotent ==
  /\ \A x \in Identifiers :
       normalizeProfileId(normalizeProfileId(x)) = normalizeProfileId(x)
  /\ \A h \in Handlers :
       handlers[h].reg.done =>
         LET reg == handlers[h].reg
         IN /\ \A i \in 1..Len(reg.profiles) :
                 resolveProfile(reg.profiles, reg.profiles[i].id, reg.defaultProfile).id
                   = reg.profiles[i].id
            /\ \A a \in AliasKeys :
                 resolveProfile(reg.profiles, a, reg.defaultProfile)
                   = resolveProfile(reg.profiles, PROFILE_ALIASES[a], reg.defaultProfile)
            /\ (Launched(h) /\ handlers[h].req.profile \in AliasKeys) =>
                 handlers[h].launch.profileId = PROFILE_ALIASES[handlers[h].req.profile]

C19_Witness ==
  \E h \in Handlers :
    /\ Launched(h)
    /\ handlers[h].req.profile = "fast"
    /\ handlers[h].launch.profileId = "oss20b"
    /\ handlers[h].reg.source = "openwebui"

ExecAt(args) == CHOOSE i \in 1..Len(args) : args[i] = "exec"

BeforeExec(args) == SubSeq(args, 1, ExecAt(args) - 1)

AfterExec(args) == SubSeq(args, ExecAt(args) + 1, Len(args))

SameCall(h1, h2) ==
  /\ handlers[h1].req.tool = "codex_run"
  /\ handlers[h2].req.tool = "codex_resume"
  /\ handlers[h1].req.profile = handlers[h2].req.profile
  /\ handlers[h1].reg.done /\ handlers[h2].reg.done
  /\ handlers[h1].reg.rows = handlers[h2].reg.rows

SameResolution(h1, h2) ==
  /\ Launched(h1) <=> Launched(h2)
  /\ Launched(h2) =>
       /\ handlers[h2].launch.profileId = handlers[h1].launch.profileId
       /\ handlers[h2].launch.home = handlers[h1].launch.home
       /\ BeforeExec(handlers[h2].launch.args) = BeforeExec(handlers[h1].launch.args)
       /\ handlers[h2].launch.timeout = 300 * 1000

Restricted(row) == row.id \in {"kimi", "security"}

SetMax(S) == CHOOSE m \in S : \A x \in S : x <= m

BuiltFrom(h) == WithDefaultRow(handlers[h].reg.rows)

IsolatedEntryOf(map, rows) ==
  LET R == {i \in 1..Len(rows) : Restricted(rows[i])}
  IN /\ Cardinality({i \in 1..Len(map) : map[i].id = "security"}) <= 1
     /\ \A i \in 1..Len(map) : (map[i].key = "security") <=> (map[i].id = "security")
     /\ \A i, j \in 1..Len(map) : map[i].key = map[j].key => i = j
     /\ R # {} =>
          /\ MapHas(map, "security")
          /\ MapGet(map, "security").name = OrElse(rows[SetMax(R)].name, "Security")
          /\ MapGet(map, "security").baseModel = rows[SetMax(R)].base_model_id
     /\ (R = {} /\ \E i \in 1..Len(rows) : rows[i].base_model_id = KIMI_MODEL) =>
          /\ MapHas(map, "security")
          /\ MapGet(map, "security").name = "Security"
          /\ MapGet(map, "security").baseModel = KIMI_MODEL
     /\ (R = {} /\ \A i \in 1..Len(rows) : rows[i].base_model_id # KIMI_MODEL) =>
          ~MapHas(map, "security")

StoredLast(map, rows, i) ==
  LET k    == normalizeProfileId(rows[i].id)
      same == {j \in 1..Len(rows) :
                 ~Restricted(rows[j]) /\ normalizeProfileId(rows[j].id) = k}
  IN /\ MapHas(map, k)
     /\ MapGet(map, k).id = k
     /\ MapGet(map, k).name = OrElse(rows[SetMax(same)].name, k)
     /\ MapGet(map, k).baseModel = rows[SetMax(same)].base_model_id

(* C21 as stated: the built registry holds at most one isolated entry,    *)
(* under the reserved key, taken from the last restricted row or          *)
(* synthesized from the marker; every other row is stored under its       *)
(* alias-resolved identifier, later rows overwriting earlier ones, and no *)
(* entry under another key is the isolated profile.                       *)
C21_EveryRowStored ==
  \A h \in Handlers :
    handlers[h].reg.done =>
      /\ IsolatedEntryOf(handlers[h].reg.profiles, BuiltFrom(h))
      /\ \A i \in 1..Len(BuiltFrom(h)) :
           ~Restricted(BuiltFrom(h)[i]) =>
             StoredLast(handlers[h].reg.profiles, BuiltFrom(h), i)

(* C21 amended: the same, for every other row whose identifier is not     *)
(* empty; a row with an empty identifier is stored nowhere.               *)
C21_RegistryShape ==
  \A h \in Handlers :
    handlers[h].reg.done =>
      /\ IsolatedEntryOf(handlers[h].reg.profiles, BuiltFrom(h))
      /\ \A i \in 1..Len(BuiltFrom(h)) :
           (~Restricted(BuiltFrom(h)[i]) /\ BuiltFrom(h)[i].id # "") =>
             StoredLast(handlers[h].reg.profiles, BuiltFrom(h), i)
      /\ \A j \in 1..Len(handlers[h].reg.profiles) :
           /\ handlers[h].reg.profiles[j].key # Null
           /\ handlers[h].reg.profiles[j].key # ""
           /\ \/ handlers[h].reg.profiles[j].key = "security"
              \/ \E i \in 1..Len(BuiltFrom(h)) :
                   normalizeProfileId(BuiltFrom(h)[i].id) = handlers[h].reg.profiles[j].key

C21_Witness ==
  \E h \in Handlers :
    /\ handlers[h].reg.done
    /\ handlers[h].reg.rows = << Row("kimi", "N", "m1"), Row("security", "S", "m2") >>
    /\ MapGet(handlers[h].reg.profiles, "security").name = "S"

Kept(s0, reported0, limit) ==
  \E s \in {s0}, reported \in {reported0}, n \in {Len(s0)} :
    IF n <= limit
    THEN reported = s
    ELSE /\ Len(reported) = limit + 1
         /\ reported[1] = "...[truncated]..."
         /\ SubSeq(reported, 2, limit + 1) = SubSeq(s, n - limit + 1, n)

ReportedStdout(h) ==
  IF handlers[h].launch.mode = "codex_run"
  THEN SubSeq(handlers[h].outcome.stdout, 3, Len(handlers[h].outcome.stdout))
  ELSE handlers[h].outcome.stdout

Closed(h) ==
  /\ handlers[h].launch.spawned
  /\ handlers[h].outcome.set
  /\ ~handlers[h].launch.error

(* C22: a captured stream no longer than its limit (50,000 for stdout,    *)
(* 5,000 for stderr) is reported unchanged; a longer one is reported as   *)
(* the truncation marker followed by exactly its last limit characters.   *)
C22_SuffixKept ==
  \A h \in Handlers :
    Closed(h) =>
      /\ Kept(CapturedOutput(handlers[h].launch.captured), ReportedStdout(h), STDOUT_LIMIT)
      /\ Kept(handlers[h].launch.stderr, handlers[h].outcome.stderr, STDERR_LIMIT)

C22_Witness ==
  \E h \in Handlers :
    /\ Closed(h)
    /\ handlers[h].launch.captured = STDOUT_LIMIT + 1
    /\ Len(handlers[h].launch.stderr) = STDERR_LIMIT + 1
    /\ ReportedStdout(h)[1] = "...[truncated]..."
    /\ handlers[h].outcome.stderr[1] = "...[truncated]..."

Responses(h) == Cardinality({i \in 1..Len(out) : out[i] = h})

Answerable(h) == handlers[h].req.method \notin SilentMethods

AtMostOneResponse ==
  \A h \in Handlers :
    /\ Responses(h) <= 1
    /\ (handlers[h].launch.error /\ handlers[h].launch.closed) => Responses(h) = 1

(* C23: every message that is a JSON object and is not the initialized    *)
(* notification gets exactly one response carrying its id, also when both *)
(* the error and the close event of the child fire for the call: never    *)
(* two responses, and eventually one.                                     *)
C23_ExactlyOneResponse ==
  /\ []AtMostOneResponse
  /\ (Len(handlers) = 1 /\ Answerable(1)) ~> (Responses(1) = 1)

NoProfileCall(h) == IsTaskCall(h) /\ Falsy(handlers[h].req.profile)

(* C24: after every refresh, whatever the query's outcome, the registry   *)
(* has an entry "default" and the returned default profile is neither     *)
(* null nor the isolated profile; so a run-task or resume-task call that  *)
(* names no profile is never rejected as unknown and never runs in the    *)
(* isolated execution home.                                               *)
C24_DefaultNeverIsolated ==
  \A h \in Handlers :
    handlers[h].reg.done =>
      /\ MapHas(handlers[h].reg.profiles, "default")
      /\ handlers[h].reg.defaultProfile \notin {Null, Undef, "security"}
      /\ NoProfileCall(h) =>
           /\ Launched(h)
           /\ ~RejectedUnknown(h)
           /\ handlers[h].launch.profileId # "security"
           /\ handlers[h].launch.home = MAIN_CODEX_HOME
           /\ handlers[h].launch.home # SECURITY_CODEX_HOME

C24_Witness ==
  \E h \in Handlers :
    /\ NoProfileCall(h)
    /\ handlers[h].reg.done
    /\ handlers[h].reg.query.rows = << Row("kimi", "N", "m1") >>
    /\ MapHas(handlers[h].reg.profiles, "security")
    /\ Launched(h)
    /\ handlers[h].launch.home = MAIN_CODEX_HOME

OwnConfig(h) ==
  IF handlers[h].launch.home = SECURITY_CODEX_HOME
  THEN renderSecurityConfig(MapGet(handlers[h].reg.profiles, "security"))
  ELSE renderMainConfig(handlers[h].reg.profiles, handlers[h].reg.defaultProfile)

ProfileResolved(h) ==
  \/ Falsy(handlers[h].req.profile)
  \/ /\ handlers[h].launch.profileId = normalizeProfileId(handlers[h].req.profile)
     /\ MapHas(handlers[h].reg.profiles, handlers[h].launch.profileId)

(* C25: a run-task or resume-task call launches the wrapped tool at most  *)
(* once, and only after its own registry refresh and configuration write  *)
(* are done and its profile has resolved (or none was requested); a call  *)
(* rejected as unknown profile never launches the wrapped tool.           *)
C25_LaunchAfterOwnRefresh ==
  \A h \in Handlers :
    /\ handlers[h].spawns <= 2
    /\ ~Launched(h) => handlers[h].spawns <= 1
    /\ Launched(h) =>
         /\ IsTaskCall(h)
         /\ handlers[h].spawns = 2
         /\ handlers[h].reg.done
         /\ handlers[h].launch.cfg = OwnConfig(h)
         /\ ProfileResolved(h)
    /\ (UnknownProfileCall(h) \/ RejectedUnknown(h)) => ~Launched(h)

C25_Witness ==
  \E h1, h2 \in Handlers :
    /\ Launched(h1) /\ Launched(h2)
    /\ handlers[h1].pc = "running" /\ handlers[h2].pc = "running"
    /\ handlers[h1].reg.query # handlers[h2].reg.query
    /\ handlers[h1].launch.cfg # handlers[h2].launch.cfg
    /\ ~Falsy(handlers[h1].req.profile)

====
